---- MODULE Spec2Model ----
(***************************************************************************)
(* Model of sharepoint_extractor_python.py: the SharePointExtractor class  *)
(* (authenticate, parse_sharepoint_url, make_graph_request, find_site,      *)
(* get_document_drive, find_target_folder, navigate_path_segments,          *)
(* scan_folder_contents, export_to_csv, run) and main().                    *)
(*                                                                          *)
(* Strings are sequences of tokens.  The separator characters the code      *)
(* looks at ("/", "?", ".", ":", ",", " ") are tokens of their own, and so  *)
(* are the percent escapes "%20" and "%2F"; every other token is a word     *)
(* that contains none of them.  Concatenation, search, split, strip,        *)
(* replace, lower and unquote are then the code's operations, token by      *)
(* token.  The pass-through metadata of an item (dates, user names, size)   *)
(* is left out of the records; it is copied from the listing unchanged.     *)
(***************************************************************************)
EXTENDS Integers, Sequences, FiniteSets, TLC

VARIABLES
    sharepoint_url,   \* the URL argument of run() / parse_sharepoint_url()
    tree,             \* the remote drive: parent, folder flag and name of each item
    pc,               \* position of main()/run(), or of the client of the object
    access_token,     \* self.access_token
    total_items,      \* self.total_items
    files_count,      \* self.files_count
    folders_count,    \* self.folders_count
    url_info,         \* run(): url_info
    attempts,         \* find_site(): the candidate keys not yet requested
    site_id,          \* run(): site_id
    drive_id,         \* run(): drive_id
    folder_id,        \* run(): folder_id
    nav,              \* navigate_path_segments(): segments left, current_id
    stack,            \* the call stack of scan_folder_contents()
    items,            \* the list the outermost scan_folder_contents() returned
    requests,         \* every endpoint handed to requests.get, in order
    last_status,      \* status of the latest Graph response
    auth_calls,       \* number of calls made to the identity provider
    csv_file,         \* the rows export_to_csv wrote, or NoFile
    run_result,       \* what run() returned
    exit_code,        \* what main() returned
    stages,           \* the stages of run() entered so far, in order
    failure,          \* the message of the exception run() caught, or <<>>
    path_attempts,    \* find_target_folder(): the path templates not yet requested
    call,             \* the outermost scan_folder_contents() call in progress
    returns           \* client session: the scans finished so far

vars == <<sharepoint_url, tree, pc, access_token, total_items, files_count,
          folders_count, url_info, attempts, site_id, drive_id, folder_id, nav,
          stack, items, requests, last_status, auth_calls, csv_file,
          run_result, exit_code, stages, failure, path_attempts, call, returns>>

\* Python's None as a request result; an absent id or token is the empty string,
\* which the code's truth tests (`if not site_id`) treat alike
None == [none |-> TRUE]
IsNone(r) == "none" \in DOMAIN r
Absent == <<>>
\* the output file: not written, or written with these rows after the header
NoFile == [written |-> FALSE, rows |-> <<>>]

----------------------------------------------------------------------------
(* Strings as token sequences                                              *)

\* s[i..] starts with lit
IsAt(s, lit, i) ==
    /\ i >= 1
    /\ i + Len(lit) - 1 <= Len(s)
    /\ SubSeq(s, i, i + Len(lit) - 1) = lit

\* `lit in s`
Contains(s, lit) == \E i \in 1..Len(s) : IsAt(s, lit, i)

\* s[j..]
From(s, j) == SubSeq(s, j, Len(s))

\* the end of the longest run of tokens other than "/" that starts at j
\* (j - 1 when s[j] is "/" or j is past the end): the greedy [^/]+
RunEnd(s, j) ==
    CHOOSE k \in (j - 1)..Len(s) :
        /\ \A m \in j..k : s[m] # "/"
        /\ (k = Len(s) \/ s[k + 1] = "/")

\* url.split('?')[0]
BeforeQuery(s) ==
    IF \E i \in 1..Len(s) : s[i] = "?"
    THEN SubSeq(s, 1, (CHOOSE i \in 1..Len(s) :
                          s[i] = "?" /\ \A m \in 1..(i - 1) : s[m] # "?") - 1)
    ELSE s

\* s.rstrip('/')
RECURSIVE RStripSlash(_)
RStripSlash(s) ==
    IF s # <<>> /\ s[Len(s)] = "/" THEN RStripSlash(SubSeq(s, 1, Len(s) - 1)) ELSE s

\* urllib.parse.unquote, on the escapes of the model
UnquoteTok(t) == CASE t = "%20" -> " " [] t = "%2F" -> "/" [] OTHER -> t
Unquote(s) == [i \in 1..Len(s) |-> UnquoteTok(s[i])]

\* str.lower(): the words of the model that hold an upper-case letter
LowerTok(t) ==
    CASE t = "Documents" -> "documents"
      [] t = "Archive" -> "archive"
      [] t = "Reports" -> "reports"
      [] t = "Sub" -> "sub"
      [] t = "Missing" -> "missing"
      [] t = "My" -> "my"
      [] t = "Files" -> "files"
      [] OTHER -> t
Lower(s) == [i \in 1..Len(s) |-> LowerTok(s[i])]

\* re.search(lit + '([^/]+)', s): the leftmost place where lit is followed by
\* at least one token other than "/"; 0 when there is none
SearchSeg(s, lit) ==
    LET ok(i) == IsAt(s, lit, i) /\ RunEnd(s, i + Len(lit)) >= i + Len(lit)
    IN IF \E i \in 1..Len(s) : ok(i)
       THEN CHOOSE i \in 1..Len(s) : ok(i) /\ \A m \in 1..(i - 1) : ~ok(m)
       ELSE 0

\* group(1) of that match
SegGroup(s, lit, i) == SubSeq(s, i + Len(lit), RunEnd(s, i + Len(lit)))

\* re.search(lit + '(.+)', s): the leftmost place where lit is followed by at
\* least one token; 0 when there is none
SearchRest(s, lit) ==
    LET ok(i) == IsAt(s, lit, i) /\ i + Len(lit) <= Len(s)
    IN IF \E i \in 1..Len(s) : ok(i)
       THEN CHOOSE i \in 1..Len(s) : ok(i) /\ \A m \in 1..(i - 1) : ~ok(m)
       ELSE 0

\* re.search(r'/personal/[^/]+/(.+)', s): start of group(1), 0 when no match
SearchPersonalRest(s) ==
    LET lit == <<"/", "personal", "/">>
        e(i) == RunEnd(s, i + 3)
        ok(i) == /\ IsAt(s, lit, i)
                 /\ e(i) >= i + 3
                 /\ e(i) + 2 <= Len(s)
    IN IF \E i \in 1..Len(s) : ok(i)
       THEN e(CHOOSE i \in 1..Len(s) : ok(i) /\ \A m \in 1..(i - 1) : ~ok(m)) + 2
       ELSE 0

----------------------------------------------------------------------------
(* parse_sharepoint_url                                                    *)

EmptyUrlInfo ==
    [tenant_domain |-> <<>>, site_path |-> <<>>, document_path |-> <<>>,
     is_personal_site |-> FALSE]

ParseSite(url) ==
    LET p == SearchSeg(url, <<"/", "personal", "/">>)
        t == SearchSeg(url, <<"/", "sites", "/">>)
    IN IF p # 0
       THEN [is_personal_site |-> TRUE,
             site_path |-> <<"/", "personal", "/">> \o SegGroup(url, <<"/", "personal", "/">>, p)]
       ELSE IF t # 0
       THEN [is_personal_site |-> FALSE,
             site_path |-> <<"/", "sites", "/">> \o SegGroup(url, <<"/", "sites", "/">>, t)]
       ELSE [is_personal_site |-> FALSE, site_path |-> <<>>]

ParseDocumentPath(url, is_personal) ==
    LET d == SearchRest(url, <<"/", "Documents", "/">>)
        r == SearchPersonalRest(url)
    IN IF d # 0 THEN Unquote(From(url, d + 3))
       ELSE IF Contains(url, <<"/", "Documents">>) THEN <<>>
       ELSE IF is_personal /\ r # 0 THEN Unquote(From(url, r))
       ELSE <<>>

parse_sharepoint_url(raw) ==
    IF raw = <<>> THEN EmptyUrlInfo
    ELSE LET url == RStripSlash(BeforeQuery(raw))
             h == SearchSeg(url, <<"https:", "/", "/">>)
             site == ParseSite(url)
         IN [tenant_domain |-> IF h # 0 THEN SegGroup(url, <<"https:", "/", "/">>, h) ELSE <<>>,
             site_path |-> site.site_path,
             document_path |-> ParseDocumentPath(url, site.is_personal_site),
             is_personal_site |-> site.is_personal_site]

----------------------------------------------------------------------------
(* The remote side: the drive's items and what the Graph API answers       *)

MaxNodes == 3

\* the id and the name of item n (0 is the drive's root folder)
IdOf(n) == IF n = 0 THEN <<"root">> ELSE <<ToString(n)>>

NodesOf(t) == 1..Len(t.parent)

NodeOf(t, id) ==
    IF \E n \in 0..Len(t.parent) : IdOf(n) = id
    THEN CHOOSE n \in 0..Len(t.parent) : IdOf(n) = id
    ELSE -1

\* the items whose parent is n, as a sequence in listing order (by item number)
RECURSIVE ChildrenFrom(_, _, _)
ChildrenFrom(t, n, k) ==
    IF k > Len(t.parent) THEN <<>>
    ELSE (IF t.parent[k] = n THEN <<k>> ELSE <<>>) \o ChildrenFrom(t, n, k + 1)

ChildNodes(t, n) == ChildrenFrom(t, n, 1)

\* one entry of a children listing: what the code reads of it
\* (child['id'], child['name'], 'folder' in child)
ChildJson(t, k) == [id |-> IdOf(k), name |-> t.name[k], folder |-> t.folder[k]]

\* the 'value' of GET /drives/{drive}/items/{id}/children
Listing(t, id) ==
    LET c == ChildNodes(t, NodeOf(t, id))
    IN [i \in 1..Len(c) |-> ChildJson(t, c[i])]

\* the drive used by main(): a fixed content
\*   Archive/            reports (a file)     Reports/
\*     a  Sub/  c                               d
\*        b
RunTree ==
    [parent |-> <<0, 0, 0, 1, 1, 5, 1, 3>>,
     folder |-> <<TRUE, FALSE, TRUE, FALSE, TRUE, FALSE, FALSE, FALSE>>,
     name   |-> << <<"Archive">>, <<"reports">>, <<"Reports">>, <<"a">>,
                   <<"Sub">>, <<"b">>, <<"c">>, <<"d">> >>]

\* every drive of exactly MaxNodes items: an item's parent is the root or an
\* earlier item that is a folder; item k is named "f" k
ItemName(k) == <<"f", ToString(k)>>

Trees ==
    { [parent |-> p, folder |-> f, name |-> [k \in 1..MaxNodes |-> ItemName(k)]] :
        <<p, f>> \in { pf \in [1..MaxNodes -> 0..(MaxNodes - 1)] \X [1..MaxNodes -> BOOLEAN] :
                        \A k \in 1..MaxNodes :
                            /\ pf[1][k] < k
                            /\ pf[1][k] # 0 => pf[2][pf[1][k]] } }

\* str.split('/') and the filter `if seg.strip()`
RECURSIVE SplitSlash(_)
SplitSlash(s) ==
    IF \E i \in 1..Len(s) : s[i] = "/"
    THEN LET i == CHOOSE i \in 1..Len(s) : s[i] = "/" /\ \A m \in 1..(i - 1) : s[m] # "/"
         IN <<SubSeq(s, 1, i - 1)>> \o SplitSlash(From(s, i + 1))
    ELSE <<s>>

IsBlank(seg) == \A i \in 1..Len(seg) : seg[i] = " "

Segments(path) == SelectSeq(SplitSlash(path), LAMBDA seg : ~IsBlank(seg))

\* the item the remote finds at root:/{path}: (names compared exactly), -1 if none
RECURSIVE ResolveFrom(_, _, _)
ResolveFrom(t, n, segs) ==
    IF segs = <<>> THEN n
    ELSE LET c == ChildNodes(t, n)
             hit == { i \in 1..Len(c) : t.name[c[i]] = Head(segs) }
         IN IF hit = {} THEN -1
            ELSE ResolveFrom(t, c[CHOOSE i \in hit : TRUE], Tail(segs))

ResolvePath(t, path) == ResolveFrom(t, 0, SplitSlash(path))

\* statuses of a Graph response; "exc" is requests.get raising
Statuses == {"200", "404", "500", "exc"}
Failures == Statuses \ {"200"}

\* the site the remote returns for a candidate key: the root site for the
\* bare domain and for "root", the addressed site otherwise
SiteJson(key) ==
    [id |-> IF \E i \in 1..Len(key) : key[i] \in {":", ","} THEN <<"site-1">> ELSE <<"site-root">>]

DocsDrive  == [name |-> <<"Documents">>, id |-> <<"drive-docs">>]
OtherDrive == [name |-> <<"Shared">>, id |-> <<"drive-other">>]

\* the drive lists a site may answer with
DriveLists == { <<>>, <<DocsDrive>>, <<OtherDrive>>, <<OtherDrive, DocsDrive>> }

----------------------------------------------------------------------------
(* make_graph_request: the endpoint is logged, the status decides the result *)

\* make_graph_request returns the JSON on 200 and None otherwise
GraphResult(status, json) == IF status = "200" THEN json ELSE None

\* a JSON body with a 'value' array, and one without the key
WithValue(v) == [has_value |-> TRUE, value |-> v]
NoValue == [has_value |-> FALSE, value |-> <<>>]

SiteEndpoint(attempt) == <<"/", "sites", "/">> \o attempt
DrivesEndpoint(site) == <<"/", "sites", "/">> \o site \o <<"/", "drives">>
ItemEndpoint(drive, item) == <<"/", "drives", "/">> \o drive \o <<"/", "items", "/">> \o item
ChildrenEndpoint(drive, item) == ItemEndpoint(drive, item) \o <<"/", "children">>

----------------------------------------------------------------------------
(* find_site: the candidate keys                                            *)

\* tenant_domain.split('.')[0]
TenantPrefix(domain) ==
    IF \E i \in 1..Len(domain) : domain[i] = "."
    THEN SubSeq(domain, 1, (CHOOSE i \in 1..Len(domain) :
                               domain[i] = "." /\ \A m \in 1..(i - 1) : domain[m] # ".") - 1)
    ELSE domain

\* site_path.replace('/', ',')
SlashToComma(s) == [i \in 1..Len(s) |-> IF s[i] = "/" THEN "," ELSE s[i]]

\* s.split(lit)[1] for an s that holds lit once
AfterLit(s, lit) ==
    From(s, (CHOOSE i \in 1..Len(s) : IsAt(s, lit, i) /\ \A m \in 1..(i - 1) : ~IsAt(s, lit, m))
            + Len(lit))

SharePointCom == <<".", "sharepoint", ".", "com", ",">>

\* SiteAttempts with "root" tried before the bare domain
SiteAttemptsRootFirst(tenant_domain, site_path) ==
    << tenant_domain \o <<":">> \o site_path, <<"root">>, tenant_domain >>
    \o (IF Contains(tenant_domain, <<".">>)
        THEN IF Contains(site_path, <<"/", "sites", "/">>)
             THEN << TenantPrefix(tenant_domain) \o SharePointCom
                     \o Tail(SlashToComma(site_path)) >>
             ELSE IF Contains(site_path, <<"/", "personal", "/">>)
             THEN << TenantPrefix(tenant_domain) \o SharePointCom
                     \o <<"personal", ",">> \o AfterLit(site_path, <<"/", "personal", "/">>) >>
             ELSE <<>>
        ELSE <<>>)

SiteAttempts(tenant_domain, site_path) ==
    << tenant_domain \o <<":">> \o site_path, tenant_domain, <<"root">> >>
    \o (IF Contains(tenant_domain, <<".">>)
        THEN IF Contains(site_path, <<"/", "sites", "/">>)
             THEN << TenantPrefix(tenant_domain) \o SharePointCom
                     \o Tail(SlashToComma(site_path)) >>
             ELSE IF Contains(site_path, <<"/", "personal", "/">>)
             THEN << TenantPrefix(tenant_domain) \o SharePointCom
                     \o <<"personal", ",">> \o AfterLit(site_path, <<"/", "personal", "/">>) >>
             ELSE <<>>
        ELSE <<>>)

\* get_document_drive: the drive named "Documents", else the first, else absent
PickDrive(drives) ==
    LET docs == { i \in 1..Len(drives) : drives[i].name = <<"Documents">> }
    IN IF docs # {} THEN drives[CHOOSE i \in docs : \A m \in docs : i <= m].id
       ELSE IF drives # <<>> THEN drives[1].id
       ELSE Absent

\* find_target_folder: the two direct path templates
PathAttempts(path) ==
    << <<"root", ":", "/">> \o path \o <<":">>,
       <<"root", ":", "/", "Documents", "/">> \o path \o <<":">> >>

\* the path the remote reads out of "root:/{path}:"
RemotePath(attempt) == SubSeq(attempt, 4, Len(attempt) - 1)

\* MatchChild without the test `'folder' in child`
MatchChildAnyKind(value, segment) ==
    LET hit == { i \in 1..Len(value) : Lower(value[i].name) = Lower(segment) }
    IN IF hit = {} THEN 0 ELSE CHOOSE i \in hit : \A m \in hit : i <= m

\* navigate_path_segments: the first child that is a folder and whose name
\* equals the segment ignoring case; 0 when there is none
MatchChild(value, segment) ==
    LET hit == { i \in 1..Len(value) :
                   Lower(value[i].name) = Lower(segment) /\ value[i].folder }
    IN IF hit = {} THEN 0 ELSE CHOOSE i \in hit : \A m \in hit : i <= m

----------------------------------------------------------------------------
(* The inputs of main()                                                     *)

Https == <<"https:", "/", "/">>
Contoso == <<"contoso", ".", "sharepoint", ".", "com">>
ContosoMy == <<"contoso-my", ".", "sharepoint", ".", "com">>

\* the URLs main() is run with
RunUrls ==
    { <<>>,
      <<"contoso", ".", "sharepoint", ".", "com", "/", "sites", "/", "team">>,
      Https \o Contoso \o <<"/", "sites", "/", "team", "/", "Documents">>,
      Https \o Contoso \o <<"/", "sites", "/", "team", "/", "Documents", "/", "Archive">>,
      Https \o Contoso \o <<"/", "Documents", "/", "archive", "/", "sub", "/">>,
      Https \o <<"localhost">> \o <<"/", "sites", "/", "team", "/", "Documents", "/", "Missing">>,
      Https \o ContosoMy \o <<"/", "personal", "/", "user", "/", "reports", "?", "view">> }

----------------------------------------------------------------------------
(* State after SharePointExtractor() is constructed                         *)

NoCall ==
    [drive_id |-> Absent, folder_id |-> Absent, current_path |-> <<>>,
     total_before |-> 0, files_before |-> 0, folders_before |-> 0,
     requests_before |-> 0, failed |-> FALSE]

InitObject ==
    /\ access_token = Absent
    /\ total_items = 0
    /\ files_count = 0
    /\ folders_count = 0

InitLocals ==
    /\ url_info = EmptyUrlInfo
    /\ attempts = <<>>
    /\ site_id = Absent
    /\ drive_id = Absent
    /\ folder_id = Absent
    /\ nav = [segments |-> <<>>, current_id |-> Absent]
    /\ path_attempts = <<>>
    /\ stack = <<>>
    /\ items = <<>>
    /\ call = NoCall
    /\ requests = <<>>
    /\ last_status = "none"
    /\ auth_calls = 0
    /\ csv_file = NoFile
    /\ run_result = <<>>
    /\ exit_code = -1
    /\ stages = <<>>
    /\ failure = <<>>
    /\ returns = <<>>

\* main(): the extractor is constructed and run() is about to authenticate
Init ==
    /\ sharepoint_url \in RunUrls
    /\ tree = RunTree
    /\ pc = "run"
    /\ InitObject
    /\ InitLocals

object == <<access_token, total_items, files_count, folders_count>>
inputs == <<sharepoint_url, tree>>
locals == <<url_info, attempts, site_id, drive_id, folder_id, nav, path_attempts>>
scanning == <<stack, items, call, returns>>
network == <<requests, last_status>>
outputs == <<csv_file, run_result, exit_code>>

\* requests.get(endpoint) answered with status; a 200 whose body lacks
\* 'value' is noted as such
Request(endpoint, status, has_value) ==
    /\ requests' = Append(requests, endpoint)
    /\ last_status' = IF status = "200" /\ ~has_value THEN "200 without value" ELSE status

\* run(): `raise Exception(msg)` caught by `except Exception`, which returns []
Raise(msg) ==
    /\ failure' = msg
    /\ run_result' = <<>>
    /\ pc' = "run_returned"

----------------------------------------------------------------------------
(* run(), steps 1 to 5                                                      *)

\* authenticate(): the identity provider hands out a token, answers without
\* one, or the library raises; either flow ends in one of the three
Authenticate ==
    /\ pc = "run"
    /\ stages' = Append(stages, "authenticate")
    /\ auth_calls' = auth_calls + 1
    /\ \E outcome \in {"token", "error", "exception"} :
         IF outcome = "token"
         THEN /\ access_token' = <<"token">>
              /\ pc' = "parse_sharepoint_url"
              /\ UNCHANGED <<failure, run_result>>
         ELSE /\ Raise(<<"Authentication failed">>)
              /\ UNCHANGED access_token
    /\ UNCHANGED <<total_items, files_count, folders_count, inputs, locals,
                   scanning, network, csv_file, exit_code>>

\* ParseUrl without the test `if not url_info['tenant_domain']`
ParseUrlUnchecked ==
    /\ pc = "parse_sharepoint_url"
    /\ stages' = Append(stages, "parse_sharepoint_url")
    /\ url_info' = parse_sharepoint_url(sharepoint_url)
    /\ pc' = "find_site"
    /\ attempts' = <<>>
    /\ UNCHANGED <<failure, run_result>>
    /\ UNCHANGED <<object, inputs, site_id, drive_id, folder_id, nav, path_attempts,
                   scanning, network, auth_calls, csv_file, exit_code>>

ParseUrl ==
    /\ pc = "parse_sharepoint_url"
    /\ stages' = Append(stages, "parse_sharepoint_url")
    /\ url_info' = parse_sharepoint_url(sharepoint_url)
    /\ IF url_info'.tenant_domain = <<>>
       THEN /\ Raise(<<"Could not parse SharePoint URL">>)
            /\ UNCHANGED attempts
       ELSE /\ pc' = "find_site"
            /\ attempts' = <<>>
            /\ UNCHANGED <<failure, run_result>>
    /\ UNCHANGED <<object, inputs, site_id, drive_id, folder_id, nav, path_attempts,
                   scanning, network, auth_calls, csv_file, exit_code>>

\* find_site() builds its list of candidates
FindSite ==
    /\ pc = "find_site"
    /\ stages' = Append(stages, "find_site")
    /\ attempts' = SiteAttempts(url_info.tenant_domain, url_info.site_path)
    /\ pc' = "site_attempt"
    /\ UNCHANGED <<object, inputs, url_info, site_id, drive_id, folder_id, nav,
                   path_attempts, scanning, network, auth_calls, outputs, failure>>

\* one turn of `for attempt in attempts`
SiteAttempt ==
    /\ pc = "site_attempt"
    /\ attempts # <<>>
    /\ \E status \in Statuses :
         LET result == GraphResult(status, SiteJson(Head(attempts))) IN
         /\ Request(SiteEndpoint(Head(attempts)), status, TRUE)
         /\ IF ~IsNone(result)
            THEN /\ site_id' = result.id
                 /\ pc' = "get_document_drive"
                 /\ UNCHANGED <<attempts, failure, run_result>>
            ELSE /\ attempts' = Tail(attempts)
                 /\ IF Tail(attempts) = <<>>
                    THEN Raise(<<"Could not find SharePoint site">>)
                    ELSE UNCHANGED <<pc, failure, run_result>>
                 /\ UNCHANGED site_id
    /\ UNCHANGED <<object, inputs, url_info, drive_id, folder_id, nav, path_attempts,
                   scanning, auth_calls, csv_file, exit_code, stages>>

\* GetDocumentDrive without the test `if not drive_id`
GetDocumentDriveUnchecked ==
    /\ pc = "get_document_drive"
    /\ stages' = Append(stages, "get_document_drive")
    /\ \E status \in Statuses, body \in {WithValue(d) : d \in DriveLists} \cup {NoValue} :
         LET result == GraphResult(status, body)
             found == IF IsNone(result) \/ ~result.has_value
                      THEN Absent ELSE PickDrive(result.value)
         IN
         /\ status # "200" => body = NoValue
         /\ Request(DrivesEndpoint(site_id), status, body.has_value)
         /\ drive_id' = found
         /\ pc' = "find_target_folder"
         /\ UNCHANGED <<failure, run_result>>
    /\ UNCHANGED <<object, inputs, url_info, attempts, site_id, folder_id, nav,
                   path_attempts, scanning, auth_calls, csv_file, exit_code>>

GetDocumentDrive ==
    /\ pc = "get_document_drive"
    /\ stages' = Append(stages, "get_document_drive")
    /\ \E status \in Statuses, body \in {WithValue(d) : d \in DriveLists} \cup {NoValue} :
         LET result == GraphResult(status, body)
             found == IF IsNone(result) \/ ~result.has_value
                      THEN Absent ELSE PickDrive(result.value)
         IN
         /\ status # "200" => body = NoValue
         /\ Request(DrivesEndpoint(site_id), status, body.has_value)
         /\ drive_id' = found
         /\ IF found = Absent
            THEN Raise(<<"Could not access document library">>)
            ELSE /\ pc' = "find_target_folder"
                 /\ UNCHANGED <<failure, run_result>>
    /\ UNCHANGED <<object, inputs, url_info, attempts, site_id, folder_id, nav,
                   path_attempts, scanning, auth_calls, csv_file, exit_code>>

\* find_target_folder(): the root for an empty path, else the direct templates
FindTargetFolder ==
    /\ pc = "find_target_folder"
    /\ stages' = Append(stages, "find_target_folder")
    /\ IF url_info.document_path = <<>>
       THEN /\ folder_id' = <<"root">>
            /\ pc' = "scan_folder_contents"
            /\ UNCHANGED path_attempts
       ELSE /\ path_attempts' = PathAttempts(url_info.document_path)
            /\ pc' = "path_attempt"
            /\ UNCHANGED folder_id
    /\ UNCHANGED <<object, inputs, url_info, attempts, site_id, drive_id, nav,
                   scanning, network, auth_calls, outputs, failure>>

\* one turn of `for path_attempt in path_attempts`; after the last one fails,
\* navigate_path_segments() is entered at the root
PathAttempt ==
    /\ pc = "path_attempt"
    /\ path_attempts # <<>>
    /\ \E status \in Statuses :
         LET node == ResolvePath(tree, RemotePath(Head(path_attempts)))
             result == GraphResult(status, [id |-> IdOf(node)])
         IN
         /\ status = "200" => node >= 0
         /\ Request(ItemEndpoint(drive_id, Head(path_attempts)), status, TRUE)
         /\ IF ~IsNone(result)
            THEN /\ folder_id' = result.id
                 /\ pc' = "scan_folder_contents"
                 /\ UNCHANGED <<path_attempts, nav>>
            ELSE /\ path_attempts' = Tail(path_attempts)
                 /\ IF Tail(path_attempts) = <<>>
                    THEN /\ pc' = "navigate"
                         /\ nav' = [segments |-> Segments(url_info.document_path),
                                    current_id |-> <<"root">>]
                    ELSE UNCHANGED <<pc, nav>>
                 /\ UNCHANGED folder_id
    /\ UNCHANGED <<object, inputs, url_info, attempts, site_id, drive_id,
                   scanning, auth_calls, outputs, stages, failure>>

\* one turn of `for i, segment in enumerate(segments)`
NavigateSegment ==
    /\ pc = "navigate"
    /\ nav.segments # <<>>
    /\ \E status \in Statuses, has_value \in BOOLEAN :
         LET listing == Listing(tree, nav.current_id)
             result == GraphResult(status, IF has_value THEN WithValue(listing) ELSE NoValue)
             hit == IF IsNone(result) \/ ~result.has_value
                    THEN 0 ELSE MatchChild(result.value, Head(nav.segments))
         IN
         /\ status # "200" => has_value
         /\ Request(ChildrenEndpoint(drive_id, nav.current_id), status, has_value)
         /\ IF hit = 0
            THEN /\ Raise(<<"Could not find target folder">>)
                 /\ UNCHANGED nav
            ELSE /\ nav' = [segments |-> Tail(nav.segments),
                            current_id |-> result.value[hit].id]
                 /\ UNCHANGED <<pc, failure, run_result>>
    /\ UNCHANGED <<object, inputs, url_info, attempts, site_id, drive_id, folder_id,
                   path_attempts, scanning, auth_calls, csv_file, exit_code, stages>>

\* the loop over the segments is over: `return current_id`
NavigateReturn ==
    /\ pc = "navigate"
    /\ nav.segments = <<>>
    /\ folder_id' = nav.current_id
    /\ pc' = "scan_folder_contents"
    /\ UNCHANGED <<object, inputs, url_info, attempts, site_id, drive_id, nav,
                   path_attempts, scanning, network, auth_calls, outputs, stages,
                   failure>>

----------------------------------------------------------------------------
(* scan_folder_contents: one stack frame per call in progress               *)

\* a call that has not listed its folder yet
NewFrame(folder, path) ==
    [folder_id |-> folder, current_path |-> path, listed |-> FALSE,
     children |-> <<>>, i |-> 1, items |-> <<>>]

\* ScanCall with `items` kept on the object between calls instead of
\* starting as a fresh list
ScanCallSharedList(drive, folder, path) ==
    /\ stack' = <<[NewFrame(folder, path) EXCEPT !.items = items]>>
    /\ call' = [drive_id |-> drive, folder_id |-> folder, current_path |-> path,
                total_before |-> total_items, files_before |-> files_count,
                folders_before |-> folders_count, requests_before |-> Len(requests),
                failed |-> FALSE]

\* the outermost call scan_folder_contents(drive, folder, path)
ScanCall(drive, folder, path) ==
    /\ stack' = <<NewFrame(folder, path)>>
    /\ call' = [drive_id |-> drive, folder_id |-> folder, current_path |-> path,
                total_before |-> total_items, files_before |-> files_count,
                folders_before |-> folders_count, requests_before |-> Len(requests),
                failed |-> FALSE]

Top == stack[Len(stack)]

\* ItemPath with the "/" put in even after an empty current_path
ItemPathAlwaysSlash(current_path, name) == current_path \o <<"/">> \o name

\* f"{current_path}/{child['name']}" if current_path else child['name']
ItemPath(current_path, name) ==
    IF current_path # <<>> THEN current_path \o <<"/">> \o name ELSE name

\* item_info; id is not a field of the code's record: it names the remote
\* item the record was built from, so that properties can refer to it
ItemInfo(child, current_path) ==
    [Name |-> child.name,
     Type |-> IF child.folder THEN "Folder" ELSE "File",
     Path |-> ItemPath(current_path, child.name),
     IsFolder |-> child.folder,
     id |-> child.id]

\* Extend with the sub-folder's records put in front of the caller's
ExtendFront(list, sub_items) == sub_items \o list

\* items.extend(sub_items)
Extend(list, sub_items) == list \o sub_items

\* NextCounts with a folder counted as a file as well
NextCountsFolderAsFile(is_folder) ==
    [total_items |-> total_items + 1,
     files_count |-> files_count + 1,
     folders_count |-> IF is_folder THEN folders_count + 1 ELSE folders_count]

\* the three counters after one more child: total_items += 1, then
\* folders_count += 1 or files_count += 1
NextCounts(is_folder) ==
    [total_items |-> total_items + 1,
     files_count |-> IF is_folder THEN files_count ELSE files_count + 1,
     folders_count |-> IF is_folder THEN folders_count + 1 ELSE folders_count]

\* Return with a failed listing passed on to the caller the way an
\* exception would be: the caller's loop ends too, its remaining children
\* unvisited
ReturnEndsCallerLoop(result, failed) ==
    IF Len(stack) > 1
    THEN /\ stack' = [k \in 1..(Len(stack) - 1) |->
                        IF k = Len(stack) - 1
                        THEN [stack[k] EXCEPT !.items = Extend(@, result),
                                              !.i = IF failed THEN Len(stack[k].children) + 1
                                                    ELSE @]
                        ELSE stack[k]]
         /\ call' = [call EXCEPT !.failed = failed]
         /\ UNCHANGED <<items, pc, returns>>
    ELSE /\ stack' = <<>>
         /\ items' = result
         /\ call' = [call EXCEPT !.failed = failed]
         /\ IF pc = "scan"
            THEN /\ pc' = "export_to_csv"
                 /\ UNCHANGED returns
            ELSE /\ pc' = "idle"
                 /\ returns' = Append(returns,
                        [call |-> call', result |-> result, total_items |-> total_items,
                         files_count |-> files_count, folders_count |-> folders_count,
                         requests_after |-> Len(requests')])

\* `return items` of the top frame: the caller extends its list with it
\* (items.extend(sub_items)); the outermost call hands it to run() or to the
\* client of the object
Return(result, failed) ==
    IF Len(stack) > 1
    THEN /\ stack' = [k \in 1..(Len(stack) - 1) |->
                        IF k = Len(stack) - 1
                        THEN [stack[k] EXCEPT !.items = Extend(@, result)]
                        ELSE stack[k]]
         /\ call' = [call EXCEPT !.failed = failed]
         /\ UNCHANGED <<items, pc, returns>>
    ELSE /\ stack' = <<>>
         /\ items' = result
         /\ call' = [call EXCEPT !.failed = failed]
         /\ IF pc = "scan"
            THEN /\ pc' = "export_to_csv"
                 /\ UNCHANGED returns
            ELSE /\ pc' = "idle"
                 /\ returns' = Append(returns,
                        [call |-> call', result |-> result, total_items |-> total_items,
                         files_count |-> files_count, folders_count |-> folders_count,
                         requests_after |-> Len(requests')])

\* step 6 of run()
ScanStart ==
    /\ pc = "scan_folder_contents"
    /\ stages' = Append(stages, "scan_folder_contents")
    /\ ScanCall(drive_id, folder_id, url_info.document_path)
    /\ pc' = "scan"
    /\ UNCHANGED <<object, inputs, locals, items, returns, network, auth_calls,
                   outputs, failure>>

\* the children request of the top frame, answered with one of `answers`
\* (a status, and whether the body holds 'value').  Without a token
\* make_graph_request raises before any request; the frame's `except` returns
\* its (empty) list.
ScanListWith(answers) ==
    /\ pc \in {"scan", "client_scan"}
    /\ stack # <<>>
    /\ ~Top.listed
    /\ IF access_token = Absent
       THEN /\ UNCHANGED network
            /\ Return(Top.items, TRUE)
       ELSE \E answer \in answers :
              LET status == answer[1]
                  result == GraphResult(status,
                                IF answer[2] THEN WithValue(Listing(tree, Top.folder_id))
                                ELSE NoValue)
              IN
              /\ Request(ChildrenEndpoint(call.drive_id, Top.folder_id), status, answer[2])
              /\ IF IsNone(result) \/ ~result.has_value
                 THEN Return(Top.items, TRUE)
                 ELSE /\ stack' = [stack EXCEPT ![Len(stack)] =
                                      [@ EXCEPT !.listed = TRUE, !.children = result.value]]
                      /\ UNCHANGED <<items, pc, returns, call>>
    /\ UNCHANGED <<object, inputs, locals, auth_calls, outputs, stages, failure>>

\* every answer of the remote: a listing, a body without 'value', a failure
Answers == { <<st, TRUE>> : st \in Statuses } \cup { <<"200", FALSE>> }

\* the answer of a remote that serves every listing
Healthy == { <<"200", TRUE>> }

ScanList == ScanListWith(Answers)

\* one turn of `for child in children`
ScanChild ==
    /\ pc \in {"scan", "client_scan"}
    /\ stack # <<>>
    /\ Top.listed
    /\ Top.i <= Len(Top.children)
    /\ LET child == Top.children[Top.i]
           item_info == ItemInfo(child, Top.current_path)
           frame == [Top EXCEPT !.items = Append(@, item_info), !.i = @ + 1]
       IN
       /\ total_items' = NextCounts(child.folder).total_items
       /\ files_count' = NextCounts(child.folder).files_count
       /\ folders_count' = NextCounts(child.folder).folders_count
       /\ stack' = IF child.folder
                   THEN [stack EXCEPT ![Len(stack)] = frame]
                        \o <<NewFrame(child.id, item_info.Path)>>
                   ELSE [stack EXCEPT ![Len(stack)] = frame]
    /\ UNCHANGED <<access_token, inputs, locals, items, call, returns, pc, network,
                   auth_calls, outputs, stages, failure>>

\* the loop over the children is over: `return items`
ScanReturn ==
    /\ pc \in {"scan", "client_scan"}
    /\ stack # <<>>
    /\ Top.listed
    /\ Top.i > Len(Top.children)
    /\ UNCHANGED network
    /\ Return(Top.items, call.failed)
    /\ UNCHANGED <<object, inputs, locals, auth_calls, outputs, stages, failure>>

----------------------------------------------------------------------------
(* export_to_csv, the end of run(), main()                                  *)

\* the columns DictWriter writes of a record
Row(item) == [Name |-> item.Name, Type |-> item.Type, Path |-> item.Path,
              IsFolder |-> item.IsFolder]

\* step 7 of run() and its `return items`.  Nothing is written for an empty
\* list; a failing write is logged and leaves no file.
Export ==
    /\ pc = "export_to_csv"
    /\ stages' = Append(stages, "export_to_csv")
    /\ IF items = <<>>
       THEN UNCHANGED csv_file
       ELSE \E ok \in BOOLEAN :
              csv_file' = IF ok
                          THEN [written |-> TRUE, rows |-> [k \in 1..Len(items) |-> Row(items[k])]]
                          ELSE csv_file
    /\ run_result' = items
    /\ pc' = "run_returned"
    /\ UNCHANGED <<object, inputs, locals, scanning, network, auth_calls, exit_code,
                   failure>>

\* main(): run() has returned, `return 0`
MainReturn ==
    /\ pc = "run_returned"
    /\ exit_code' = 0
    /\ pc' = "exit"
    /\ UNCHANGED <<object, inputs, locals, scanning, network, auth_calls, csv_file,
                   run_result, stages, failure>>

\* main(): KeyboardInterrupt while run() is in progress, `return 1`
Interrupt ==
    /\ pc \notin {"run_returned", "exit", "idle", "client_scan"}
    /\ exit_code' = 1
    /\ pc' = "exit"
    /\ UNCHANGED <<object, inputs, locals, scanning, network, auth_calls, csv_file,
                   run_result, stages, failure>>

Next ==
    \/ Authenticate
    \/ ParseUrl
    \/ FindSite
    \/ SiteAttempt
    \/ GetDocumentDrive
    \/ FindTargetFolder
    \/ PathAttempt
    \/ NavigateSegment
    \/ NavigateReturn
    \/ ScanStart
    \/ ScanList
    \/ ScanChild
    \/ ScanReturn
    \/ Export
    \/ MainReturn
    \/ Interrupt

Spec == Init /\ [][Next]_vars

----------------------------------------------------------------------------
(* parse_sharepoint_url on its own: the URLs of the team-site form and the  *)
(* URLs of main()                                                           *)

MaxPathLen == 2

Tenants == { Contoso, <<"localhost">> }
SiteNames == { <<"team">>, <<"hr">> }
PathWords == { <<"Archive">>, <<"personal">>, <<"sites">>, <<"Documents">>, <<"My", "%20", "Files">> }

\* '/'.join(segs)
RECURSIVE JoinSlash(_)
JoinSlash(segs) ==
    IF Len(segs) = 0 THEN <<>>
    ELSE IF Len(segs) = 1 THEN segs[1]
    ELSE segs[1] \o <<"/">> \o JoinSlash(Tail(segs))

SegLists == UNION { [1..n -> PathWords] : n \in 1..MaxPathLen }

\* https://{tenant}/sites/{site}/Documents/{path...}
TeamUrl(tenant, site, segs) ==
    Https \o tenant \o <<"/", "sites", "/">> \o site \o <<"/", "Documents", "/">> \o JoinSlash(segs)

TeamUrls == { TeamUrl(t, n, g) : t \in Tenants, n \in SiteNames, g \in SegLists }

InitParse ==
    /\ sharepoint_url \in TeamUrls \cup RunUrls
    /\ tree = RunTree
    /\ pc = "parse_call"
    /\ InitObject
    /\ InitLocals

\* extractor.parse_sharepoint_url(url)
ParseCall ==
    /\ pc = "parse_call"
    /\ url_info' = parse_sharepoint_url(sharepoint_url)
    /\ pc' = "parsed"
    /\ UNCHANGED <<object, inputs, attempts, site_id, drive_id, folder_id, nav,
                   path_attempts, scanning, network, auth_calls, outputs, stages,
                   failure>>

NextParse == ParseCall

SpecParse == InitParse /\ [][NextParse]_vars

----------------------------------------------------------------------------
(* A client that keeps one SharePointExtractor and calls                    *)
(* scan_folder_contents on it more than once                                *)

MaxScans == 2

FolderIds(t) == { IdOf(0) } \cup { IdOf(n) : n \in { k \in NodesOf(t) : t.folder[k] } }

InitSession ==
    /\ sharepoint_url = <<>>
    /\ tree \in Trees
    /\ pc = "idle"
    /\ InitObject
    /\ InitLocals

\* extractor.authenticate(...)
ClientAuthenticate ==
    /\ pc = "idle"
    /\ access_token = Absent
    /\ auth_calls = 0
    /\ auth_calls' = auth_calls + 1
    /\ \E outcome \in {"token", "error", "exception"} :
         access_token' = IF outcome = "token" THEN <<"token">> ELSE access_token
    /\ UNCHANGED <<total_items, files_count, folders_count, inputs, locals, scanning,
                   pc, network, outputs, stages, failure>>

\* extractor.scan_folder_contents(drive, folder), current_path left at its
\* default ""
ClientScan ==
    /\ pc = "idle"
    /\ Len(returns) < MaxScans
    /\ \E folder \in FolderIds(tree) :
         ScanCall(DocsDrive.id, folder, <<>>)
    /\ pc' = "client_scan"
    /\ UNCHANGED <<object, inputs, locals, items, returns, network, auth_calls,
                   outputs, stages, failure>>

\* the remote serves every listing of the session: the drive is unchanged
\* and reachable throughout
SessionScanList == ScanListWith(Healthy)

NextSession ==
    \/ ClientAuthenticate
    \/ ClientScan
    \/ SessionScanList
    \/ ScanChild
    \/ ScanReturn

SpecSession == InitSession /\ [][NextSession]_vars

----------------------------------------------------------------------------
(* Properties of main() and run()                                           *)

Range(seq) == { seq[i] : i \in 1..Len(seq) }

IsPrefix(a, b) == Len(a) <= Len(b) /\ SubSeq(b, 1, Len(a)) = a

StageOrder ==
    <<"authenticate", "parse_sharepoint_url", "find_site", "get_document_drive",
      "find_target_folder", "scan_folder_contents", "export_to_csv">>

\* run() got to its `return items`
RunSucceeded == failure = <<>> /\ stages = StageOrder /\ pc \in {"run_returned", "exit"}

\* C1: main() returns 0 when the run succeeds and a nonzero code whenever the
\* run fails (authentication, URL parsing, site/drive/folder resolution).
C1_ExitCodeTellsOutcome ==
    pc = "exit" =>
        /\ RunSucceeded => exit_code = 0
        /\ failure # <<>> => exit_code # 0

\* C2 as stated: in a run whose URL is empty the parse result is all empty,
\* and neither the identity provider nor the Graph API is ever called.
C2_EmptyUrlNoRemoteCall ==
    sharepoint_url = <<>> =>
        /\ url_info = EmptyUrlInfo
        /\ auth_calls = 0
        /\ requests = <<>>

\* C2 as amended: in a run whose URL is empty no Graph API request is ever
\* made and no file is written; the identity provider has been called once,
\* before the URL is parsed; the parse result is all empty and run() stops
\* there and returns the empty list.
C2_EmptyUrlNoGraphRequest ==
    sharepoint_url = <<>> =>
        /\ requests = <<>>
        /\ csv_file = NoFile
        /\ IsPrefix(stages, <<"authenticate", "parse_sharepoint_url">>)
        /\ auth_calls = (IF stages = <<>> THEN 0 ELSE 1)
        /\ "parse_sharepoint_url" \in Range(stages) =>
              /\ url_info = EmptyUrlInfo
              /\ parse_sharepoint_url(sharepoint_url) = EmptyUrlInfo
              /\ access_token # Absent
              /\ failure = <<"Could not parse SharePoint URL">>
              /\ run_result = <<>>
              /\ pc \in {"run_returned", "exit"}

\* C2's case: the run with the empty URL authenticated, parsed and ended
C2_Witness ==
    /\ sharepoint_url = <<>>
    /\ stages = <<"authenticate", "parse_sharepoint_url">>
    /\ auth_calls = 1
    /\ pc = "exit"
    /\ exit_code = 0

\* the message run() raises when the stage fails
StageFailure(stage) ==
    CASE stage = "authenticate" -> <<"Authentication failed">>
      [] stage = "parse_sharepoint_url" -> <<"Could not parse SharePoint URL">>
      [] stage = "find_site" -> <<"Could not find SharePoint site">>
      [] stage = "get_document_drive" -> <<"Could not access document library">>
      [] stage = "find_target_folder" -> <<"Could not find target folder">>
      [] OTHER -> <<"none">>

\* the stages so far are the first stages of the fixed order, each entered
\* only with what the stages before it had to deliver; a failure is the
\* failure of the last stage entered and leaves no result and no file
C8_State ==
    /\ IsPrefix(stages, StageOrder)
    /\ "parse_sharepoint_url" \in Range(stages) => access_token # Absent
    /\ "find_site" \in Range(stages) => url_info.tenant_domain # <<>>
    /\ "get_document_drive" \in Range(stages) => site_id # Absent
    /\ "find_target_folder" \in Range(stages) => drive_id # Absent
    /\ "scan_folder_contents" \in Range(stages) => folder_id # Absent
    /\ failure # <<>> =>
          /\ stages # <<>>
          /\ failure = StageFailure(stages[Len(stages)])
          /\ run_result = <<>>
          /\ csv_file = NoFile
          /\ stack = <<>>
          /\ pc \in {"run_returned", "exit"}

\* C8: run() enters its stages in the order authenticate, parse URL, find
\* site, get drive, find folder, scan, export, and halts at the first stage
\* that fails: after a failure no stage is entered, no request is made, no
\* file is written and run() returns the empty list.
C8_HaltsAtFirstFailure ==
    /\ []C8_State
    /\ [][failure # <<>> =>
            /\ stages' = stages
            /\ requests' = requests
            /\ auth_calls' = auth_calls
            /\ csv_file' = csv_file
            /\ run_result' = <<>>
            /\ failure' = failure]_vars

\* C8's case: four stages succeeded, the fifth failed, main() is over
C8_Witness ==
    /\ failure = <<"Could not find target folder">>
    /\ Len(stages) = 5
    /\ requests # <<>>
    /\ pc = "exit"

----------------------------------------------------------------------------
(* Properties of find_site                                                  *)

\* the candidate keys as C9 lists them, for the parsed URL of the run
C9_Candidates ==
    LET d == url_info.tenant_domain
        sp == url_info.site_path
        kind == IF IsAt(sp, <<"/", "sites", "/">>, 1) THEN "sites"
                ELSE IF IsAt(sp, <<"/", "personal", "/">>, 1) THEN "personal"
                ELSE "none"
    IN << d \o <<":">> \o sp, d, <<"root">> >>
       \o (IF "." \in Range(d) /\ kind # "none"
           THEN << <<d[1], ".", "sharepoint", ".", "com", ",", kind, ",">> \o From(sp, 4) >>
           ELSE <<>>)

\* a request for /sites/{key} (the drive listing of a site ends in /drives)
IsSiteRequest(e) == IsAt(e, <<"/", "sites", "/">>, 1) /\ e[Len(e)] # "drives"

SiteRequests(log) == SelectSeq(log, IsSiteRequest)

\* the site requests made so far are the first candidates, in order, each
\* once; a site id is the id answered for the last candidate requested; the
\* lookup fails only with every candidate requested
C9_State ==
    ("find_site" \in Range(stages) /\ pc # "find_site") =>
        LET sr == SiteRequests(requests)
            c == C9_Candidates
        IN /\ Len(sr) <= Len(c)
           /\ \A i \in 1..Len(sr) : sr[i] = <<"/", "sites", "/">> \o c[i]
           /\ site_id # Absent => Len(sr) >= 1 /\ site_id = SiteJson(c[Len(sr)]).id
           /\ pc = "site_attempt" =>
                 /\ Len(sr) < Len(c)
                 /\ site_id = Absent
                 /\ Len(sr) > 0 => last_status \in Failures
           /\ failure = <<"Could not find SharePoint site">> =>
                 /\ Len(sr) = Len(c)
                 /\ last_status \in Failures
                 /\ site_id = Absent

\* C9: find_site requests its candidates in the order '{domain}:{sitePath}',
\* '{domain}', 'root', then (for a dotted domain and a /sites/ or /personal/
\* path) the comma-separated form; the first 200 ends the lookup with that
\* site's id and no later candidate is requested; any other status, or an
\* exception of the request, moves on to the next candidate, and the lookup
\* returns absent only after the last candidate failed.
C9_FirstSuccessWins ==
    /\ []C9_State
    /\ [][(pc = "site_attempt" /\ requests' # requests) =>
            /\ last_status' = "200" =>
                  /\ site_id' = SiteJson(C9_Candidates[Len(SiteRequests(requests'))]).id
                  /\ pc' = "get_document_drive"
            /\ last_status' \in Failures =>
                  /\ site_id' = Absent
                  /\ IF Len(SiteRequests(requests')) < Len(C9_Candidates)
                     THEN pc' = "site_attempt" /\ failure' = <<>>
                     ELSE failure' = <<"Could not find SharePoint site">>]_vars

\* C9's case: a dotted domain with a /sites/ path, all four candidates
\* requested and failed, the last one with a status other than 404
C9_Witness ==
    /\ failure = <<"Could not find SharePoint site">>
    /\ Len(requests) = 4
    /\ last_status = "500"
    /\ requests[4] = <<"/", "sites", "/", "contoso", ".", "sharepoint", ".", "com", ",",
                       "sites", ",", "team">>

----------------------------------------------------------------------------
(* Properties of parse_sharepoint_url                                       *)

\* C4: for every URL https://{tenant}/sites/{site}/Documents/{path...} the
\* parse gives the tenant, a non-personal site, site path /sites/{site} and
\* the percent-decoded path, whatever the segments of the path are named.
C4_TeamUrlParsedExactly ==
    pc = "parsed" =>
        \A t \in Tenants, n \in SiteNames, g \in SegLists :
            sharepoint_url = TeamUrl(t, n, g) =>
                url_info = [tenant_domain |-> t,
                            site_path |-> <<"/", "sites", "/">> \o n,
                            document_path |-> Unquote(JoinSlash(g)),
                            is_personal_site |-> FALSE]

----------------------------------------------------------------------------
(* Properties of scan_folder_contents, for a client that scans repeatedly   *)

\* a is the folder n lies in, at any depth
RECURSIVE IsAncestor(_, _, _)
IsAncestor(t, a, n) ==
    IF n = 0 THEN FALSE
    ELSE t.parent[n] = a \/ IsAncestor(t, a, t.parent[n])

\* the items below folder a
Below(t, a) == { n \in NodesOf(t) : IsAncestor(t, a, n) }

\* a scan that was served every listing it asked for
FullScans == { k \in 1..Len(returns) : ~returns[k].call.failed }

ScannedNodes(k) == Below(tree, NodeOf(tree, returns[k].call.folder_id))

\* C3 as stated: total = files + folders in every state, and after every
\* full scan (a later scan on the same object included) the result has one
\* record per item and the counters are the numbers of items, files and
\* folders of the scanned tree.
C3_CountersAreTreeSize ==
    /\ total_items = files_count + folders_count
    /\ \A k \in FullScans :
          LET r == returns[k]
              N == ScannedNodes(k)
          IN /\ Len(r.result) = Cardinality(N)
             /\ r.total_items = Cardinality(N)
             /\ r.files_count = Cardinality({ n \in N : ~tree.folder[n] })
             /\ r.folders_count = Cardinality({ n \in N : tree.folder[n] })

\* C3 as amended: total = files + folders in every state; every full scan
\* returns one record per item of the scanned tree and adds the numbers of
\* its items, files and folders to the counters, which are never reset: they
\* are those numbers after the first scan of an object and the sums over all
\* scans so far after a later one.
C3_CountersGrowByTreeSize ==
    /\ total_items = files_count + folders_count
    /\ \A k \in 1..Len(returns) :
          /\ returns[k].total_items = returns[k].files_count + returns[k].folders_count
          /\ returns[k].call.total_before =
                (IF k = 1 THEN 0 ELSE returns[k - 1].total_items)
          /\ returns[k].call.files_before =
                (IF k = 1 THEN 0 ELSE returns[k - 1].files_count)
    /\ \A k \in FullScans :
          LET r == returns[k]
              N == ScannedNodes(k)
          IN /\ Len(r.result) = Cardinality(N)
             /\ r.total_items = r.call.total_before + Cardinality(N)
             /\ r.files_count = r.call.files_before + Cardinality({ n \in N : ~tree.folder[n] })
             /\ r.folders_count = r.call.folders_before + Cardinality({ n \in N : tree.folder[n] })

\* C3's case: a full scan of a tree with files and folders that follows a
\* full scan on the same object
C3_Witness ==
    /\ Len(returns) >= 2
    /\ {1, 2} \subseteq FullScans
    /\ returns[1].result # <<>>
    /\ returns[2].files_count > returns[2].call.files_before
    /\ returns[2].folders_count > returns[2].call.folders_before
    /\ returns[2].total_items > Len(returns[2].result)

SameArguments(a, b) ==
    /\ a.drive_id = b.drive_id
    /\ a.folder_id = b.folder_id
    /\ a.current_path = b.current_path

\* C7: two full scans with the same arguments of the unchanged drive return
\* the same records in the same order.
C7_SameScanSameRecords ==
    \A i \in FullScans, j \in FullScans :
        SameArguments(returns[i].call, returns[j].call) =>
            returns[i].result = returns[j].result

\* C7's case: the same folder scanned twice, with records found, the object's
\* counters having moved in between
C7_Witness ==
    /\ Len(returns) >= 2
    /\ {1, 2} \subseteq FullScans
    /\ SameArguments(returns[1].call, returns[2].call)
    /\ Len(returns[1].result) >= 2
    /\ returns[2].call.total_before > returns[1].call.total_before

\* the item each record of a result was built from
NodeAt(result, i) == NodeOf(tree, result[i].id)

\* the place of item n in a result (0 when it has no record)
Place(result, n) ==
    IF \E i \in 1..Len(result) : NodeAt(result, i) = n
    THEN CHOOSE i \in 1..Len(result) : NodeAt(result, i) = n
    ELSE 0

ChildrenRequest(drive, item) ==
    <<"/", "drives", "/">> \o drive \o <<"/", "items", "/">> \o item \o <<"/", "children">>

\* C10: a full scan returns the records in depth-first pre-order: one record
\* per item below the scanned folder; the records of a folder's descendants
\* are exactly the records right after the folder's own; siblings are in
\* the order of the listing; and the children listings were requested in
\* that order, the scanned folder first, then each folder in record order.
C10_PreOrder ==
    \A k \in FullScans :
        LET r == returns[k]
            res == r.result
            start == NodeOf(tree, r.call.folder_id)
            folders == SelectSeq(res, LAMBDA rec : rec.IsFolder)
        IN /\ Len(res) = Cardinality(Below(tree, start))
           /\ { NodeAt(res, i) : i \in 1..Len(res) } = Below(tree, start)
           /\ \A i \in 1..Len(res) :
                 LET d == Below(tree, NodeAt(res, i))
                 IN /\ res[i].IsFolder = tree.folder[NodeAt(res, i)]
                    /\ i + Cardinality(d) <= Len(res)
                    /\ { NodeAt(res, j) : j \in (i + 1)..(i + Cardinality(d)) } = d
           /\ \A p \in {start} \cup Below(tree, start) :
                 LET c == Listing(tree, IdOf(p))
                 IN \A x \in 1..Len(c), y \in 1..Len(c) :
                       x < y => Place(res, NodeOf(tree, c[x].id)) < Place(res, NodeOf(tree, c[y].id))
           /\ SubSeq(requests, r.call.requests_before + 1, r.requests_after)
                 = <<ChildrenRequest(r.call.drive_id, r.call.folder_id)>>
                   \o [i \in 1..Len(folders) |-> ChildrenRequest(r.call.drive_id, folders[i].id)]

\* C10's case: a folder with an item inside, followed by its next sibling
C10_Witness ==
    \E k \in FullScans :
        LET res == returns[k].result
        IN /\ Len(res) >= 3
           /\ res[1].IsFolder
           /\ tree.parent[NodeAt(res, 2)] = NodeAt(res, 1)
           /\ tree.parent[NodeAt(res, 3)] = tree.parent[NodeAt(res, 1)]

----------------------------------------------------------------------------
(* Properties of the records' paths and of navigate_path_segments, in run() *)

\* the records built so far: those of the calls in progress, outermost call
\* first, or the list the scan returned
RECURSIVE FrameItems(_)
FrameItems(frames) ==
    IF frames = <<>> THEN <<>> ELSE Head(frames).items \o FrameItems(Tail(frames))

Records == IF stack # <<>> THEN FrameItems(stack) ELSE items

\* the names of the folders from below `start` down to item n, n's own last
RECURSIVE NameChain(_, _, _)
NameChain(t, start, n) ==
    IF n = start \/ n = 0 THEN <<>>
    ELSE Append(NameChain(t, start, t.parent[n]), t.name[n])

\* C5: a record's Path is its parent folder's record Path, "/" and its Name;
\* a record of an item directly in the scanned folder has Path = Name when
\* the starting prefix is empty; in run() the starting prefix is the URL's
\* document sub-path, and every Path is that sub-path followed by the names
\* of the folders from the target folder down to the item.
C5_PathIsParentPathAndName ==
    "scan_folder_contents" \in Range(stages) =>
        LET start == NodeOf(tree, call.folder_id)
            prefix == call.current_path
        IN /\ prefix = url_info.document_path
           /\ \A i \in 1..Len(Records) :
                 LET r == Records[i]
                     n == NodeOf(tree, r.id)
                 IN /\ r.Name = tree.name[n]
                    /\ tree.parent[n] = start =>
                          r.Path = (IF prefix = <<>> THEN r.Name
                                    ELSE prefix \o <<"/">> \o r.Name)
                    /\ tree.parent[n] # start =>
                          \E j \in 1..Len(Records) :
                             /\ Records[j].id = IdOf(tree.parent[n])
                             /\ r.Path = Records[j].Path \o <<"/">> \o r.Name
                    /\ r.Path = JoinSlash((IF prefix = <<>> THEN <<>> ELSE <<prefix>>)
                                          \o NameChain(tree, start, n))
           /\ csv_file.written =>
                 \A i \in 1..Len(items) : csv_file.rows[i].Path = items[i].Path

\* C5's case: run() with a sub-path in the URL, the scan over, a record two
\* folders below the target folder written to the file
C5_Witness ==
    /\ pc = "exit"
    /\ url_info.document_path = <<"Archive">>
    /\ csv_file.written
    /\ \E i \in 1..Len(csv_file.rows) :
          csv_file.rows[i].Path = <<"Archive", "/", "Sub", "/", "b">>

\* item n is the folder reached from the root along segs, each name taken
\* ignoring case
RECURSIVE FolderAlong(_, _, _)
FolderAlong(t, n, segs) ==
    IF segs = <<>> THEN n = 0
    ELSE /\ n \in NodesOf(t)
         /\ t.folder[n]
         /\ Lower(t.name[n]) = Lower(segs[Len(segs)])
         /\ FolderAlong(t, t.parent[n], SubSeq(segs, 1, Len(segs) - 1))

\* the children of the current folder that are folders named as the next
\* segment, ignoring case
C6_Matches ==
    { n \in NodesOf(tree) :
        /\ tree.parent[n] = NodeOf(tree, nav.current_id)
        /\ tree.folder[n]
        /\ Lower(tree.name[n]) = Lower(Head(nav.segments)) }

\* once entered, navigation stands at the folder its consumed segments lead
\* to, and the folder it returns is the one all segments lead to
C6_State ==
    nav.current_id # Absent =>
        LET segs == Segments(url_info.document_path)
            done == Len(segs) - Len(nav.segments)
        IN /\ done >= 0
           /\ nav.segments = SubSeq(segs, done + 1, Len(segs))
           /\ FolderAlong(tree, NodeOf(tree, nav.current_id), SubSeq(segs, 1, done))
           /\ folder_id # Absent =>
                 /\ nav.segments = <<>>
                 /\ folder_id = nav.current_id

\* C6: step-by-step navigation descends, for each segment, into a child of
\* the listing that is a folder and whose name equals the segment ignoring
\* case, never into a file of that name, and so finds the target folder
\* whenever every segment has such a child; when a segment has none (or the
\* listing is not served) it returns absent at once, without descending and
\* without another request.
C6_NavigationFindsFolder ==
    /\ []C6_State
    /\ [][(pc = "navigate" /\ nav.segments # <<>> /\ requests' # requests) =>
            /\ requests' = Append(requests, ChildrenRequest(drive_id, nav.current_id))
            /\ (last_status' = "200" /\ C6_Matches # {}) =>
                  /\ NodeOf(tree, nav'.current_id) \in C6_Matches
                  /\ nav'.segments = Tail(nav.segments)
                  /\ failure' = <<>>
            /\ (last_status' # "200" \/ C6_Matches = {}) =>
                  /\ failure' = <<"Could not find target folder">>
                  /\ nav' = nav
                  /\ folder_id' = Absent
                  /\ pc' = "run_returned"]_vars
    /\ [][failure # <<>> => requests' = requests /\ nav' = nav]_vars

\* C6's case: the segment "reports" led into the folder "Reports", past the
\* file "reports" listed before it
C6_Witness ==
    /\ url_info.document_path = <<"reports">>
    /\ nav.current_id = <<"3">>
    /\ tree.name[3] = <<"Reports">>
    /\ ~tree.folder[2] /\ tree.name[2] = <<"reports">>
    /\ folder_id = <<"3">>
    /\ pc = "exit"

----------------------------------------------------------------------------
(* Properties of a scan whose listings are not all served, in run()         *)

\* the listing just asked for was not served: no 200, or a body without
\* 'value'
C11_ListingFailed ==
    /\ pc = "scan"
    /\ stack # <<>>
    /\ ~Top.listed
    /\ requests' # requests
    /\ last_status' # "200"

\* the records of the scan that is over hang together: a record's parent is
\* the scanned folder or has a record before it; with one child of a folder
\* all children of that folder have their records, in listing order; every
\* folder with a record was asked for its listing, in record order, after
\* the scanned folder; the scan was cut short only if a listing failed
C11_Partial ==
    LET start == NodeOf(tree, call.folder_id)
        folders == SelectSeq(items, LAMBDA rec : rec.IsFolder)
    IN /\ \A i \in 1..Len(items), j \in 1..Len(items) : i # j => items[i].id # items[j].id
       /\ \A i \in 1..Len(items) :
             LET n == NodeAt(items, i)
                 c == Listing(tree, IdOf(tree.parent[n]))
             IN /\ n \in Below(tree, start)
                /\ tree.parent[n] # start =>
                      /\ Place(items, tree.parent[n]) > 0
                      /\ Place(items, tree.parent[n]) < i
                /\ \A x \in 1..Len(c) : Place(items, NodeOf(tree, c[x].id)) > 0
                /\ \A x \in 1..Len(c), y \in 1..Len(c) :
                      x < y => Place(items, NodeOf(tree, c[x].id))
                                 < Place(items, NodeOf(tree, c[y].id))
       /\ SubSeq(requests, call.requests_before + 1, Len(requests))
             = <<ChildrenRequest(call.drive_id, call.folder_id)>>
               \o [i \in 1..Len(folders) |-> ChildrenRequest(call.drive_id, folders[i].id)]
       /\ ~call.failed => { NodeAt(items, i) : i \in 1..Len(items) } = Below(tree, start)

\* once the scan has started run() raises nothing: it goes on to the export
\* and returns the list the scan returned, which the file holds if written
C11_State ==
    "scan_folder_contents" \in Range(stages) =>
        /\ failure = <<>>
        /\ pc \in {"scan", "export_to_csv", "run_returned", "exit"}
        /\ pc = "run_returned" => "export_to_csv" \in Range(stages)
        /\ stack = <<>> => C11_Partial
        /\ "export_to_csv" \in Range(stages) =>
              /\ stack = <<>>
              /\ run_result = items
              /\ csv_file.written =>
                    csv_file.rows = [k \in 1..Len(items) |-> Row(items[k])]

\* C11: a children listing that fails or has no 'value' is not fatal.  The
\* call whose listing failed returns its list as it stands (nothing raised,
\* counters untouched); a sub-folder's failed listing leaves the caller's
\* list, the sub-folder's own record last in it, and the caller's place in
\* its loop as they were, so the remaining siblings are still scanned; a
\* failed listing of the starting folder ends the scan with that list; and
\* run() goes on to export_to_csv and returns the partial list.
C11_FailedListingNotFatal ==
    /\ []C11_State
    /\ [][C11_ListingFailed =>
            /\ requests' = Append(requests, ChildrenRequest(call.drive_id, Top.folder_id))
            /\ failure' = <<>>
            /\ <<total_items, files_count, folders_count>>' =
                  <<total_items, files_count, folders_count>>
            /\ call'.failed
            /\ Len(stack) > 1 =>
                  LET caller == stack[Len(stack) - 1]
                  IN /\ stack' = SubSeq(stack, 1, Len(stack) - 1)
                     /\ caller.items[Len(caller.items)].id = Top.folder_id
                     /\ caller.children[caller.i - 1].id = Top.folder_id
                     /\ pc' = "scan"
            /\ Len(stack) = 1 =>
                  /\ stack' = <<>>
                  /\ items' = Top.items
                  /\ pc' = "export_to_csv"]_vars
    /\ [][pc = "export_to_csv" /\ pc' # "exit" =>
            /\ pc' = "run_returned"
            /\ run_result' = items
            /\ stages' = Append(stages, "export_to_csv")]_vars

\* C11's case: the listing of "Archive" failed during the scan of the drive's
\* root; its record is kept, none of its items has one, the siblings after
\* it were scanned ("Reports" down to "d"), and run() exported and returned
\* that list
C11_Witness ==
    /\ pc = "exit"
    /\ exit_code = 0
    /\ call.failed
    /\ call.folder_id = IdOf(0)
    /\ [i \in 1..Len(run_result) |-> NodeAt(run_result, i)] = <<1, 2, 3, 8>>
    /\ "export_to_csv" \in Range(stages)
    /\ csv_file.written
    /\ Len(csv_file.rows) = 4

====
